---- MODULE Spec2Model ----
(***************************************************************************)
(* A model of the two build-support scripts of the repository:             *)
(*                                                                         *)
(*   lullaby/tools/generate_entity_schema.py  (the Schema Appender)        *)
(*   dev/glob_files.py                        (the Path Collector)         *)
(*                                                                         *)
(* One behaviour is one invocation sequence of one of the two programs,    *)
(* chosen by Init (prog).  The Schema Appender is run up to MaxRuns times  *)
(* with the same command line on the file system the previous run left.    *)
(* A text is a sequence of one-character strings.                          *)
(***************************************************************************)
EXTENDS Integers, Sequences, FiniteSets, TLC

VARIABLES
    prog,        \* "appender" | "collector": the script being run
    pc,          \* the position of the script's main()
    platform,    \* the interpreter/host the script runs on
    exitCode,    \* process exit status, NoExit while running
    \* ---- Schema Appender ----
    given,       \* the flags present on the command line
    args,        \* the parsed values of the flags (meaningful for given flags)
    fs,          \* path -> file ([exists, data])
    unwritable,  \* paths that cannot be opened for writing
    handles,     \* the open file handles: records [path, mode]
    txt,         \* the local txt of main()
    log,         \* the file operations of the current run, in order
    run,         \* the number of the current run (1..MaxRuns)
    fsAtStart,   \* the file system as the current run found it
    outAfterRun, \* per finished run: the output file as that run left it
    \* ---- Path Collector ----
    patterns,    \* argv[1:]
    idx,         \* the number of patterns the for loop has consumed
    files,       \* the local files of main()
    stdout,      \* what has been printed
    cwd,         \* the listing of the current directory, in enumeration order
    sub          \* the listing of the directory DirName, in enumeration order

vars == <<prog, pc, platform, exitCode, given, args, fs, unwritable, handles,
          txt, log, run, fsAtStart, outAfterRun, patterns, idx, files, stdout,
          cwd, sub>>

appVars == <<given, args, fs, unwritable, handles, txt, log, run, fsAtStart,
             outAfterRun>>
colVars == <<patterns, idx, files, stdout, cwd, sub>>

----------------------------------------------------------------------------
(* Bounds *)

\* How many times the Schema Appender is run in succession.
MaxRuns == 2

\* The longest pattern list handed to the Path Collector.
MaxPatterns == 3

\* The most entries the current directory holds.
MaxEntries == 2

NoExit == -1

----------------------------------------------------------------------------
(* Texts *)

LF == "\n"
CR == "\r"
QUOTE == "\""
BACKSLASH == "\\"
SLASH == "/"

RECURSIVE Concat(_)
\* ''.join(seq-of-texts)
Concat(ss) == IF ss = <<>> THEN <<>> ELSE Head(ss) \o Concat(Tail(ss))

----------------------------------------------------------------------------
(* The Schema Appender: lullaby/tools/generate_entity_schema.py *)

Paths == {"p1", "p2", "p3"}
Flags == {"infile", "appendfile", "outfile", "identifier"}

Missing == [exists |-> FALSE, data |-> <<>>]
File(d) == [exists |-> TRUE, data |-> d]

\* The contents a file may have before the first run.
Contents == { <<>>, <<"a", LF>>, <<"b", CR, LF, CR>> }

\* The values --identifier may have.
Identifiers == { <<"F", "O">>, <<"Q", QUOTE>> }

AppenderPlatforms == {"posix_py2", "posix_py3", "windows_py2", "windows_py3"}

RECURSIVE CrLfToLf(_)
\* C stdio text mode on Windows, reading: CR LF becomes LF
CrLfToLf(s) ==
    IF s = <<>> THEN <<>>
    ELSE IF Head(s) = CR /\ Len(s) > 1 /\ s[2] = LF
         THEN <<LF>> \o CrLfToLf(Tail(Tail(s)))
         ELSE <<Head(s)>> \o CrLfToLf(Tail(s))

RECURSIVE UniversalNewlines(_)
\* Python 3 text mode, reading: CR LF and a lone CR become LF
UniversalNewlines(s) ==
    IF s = <<>> THEN <<>>
    ELSE IF Head(s) = CR
         THEN <<LF>> \o UniversalNewlines(
                  IF Len(s) > 1 /\ s[2] = LF THEN Tail(Tail(s)) ELSE Tail(s))
         ELSE <<Head(s)>> \o UniversalNewlines(Tail(s))

RECURSIVE LfToCrLf(_)
\* text mode on Windows, writing: LF becomes CR LF
LfToCrLf(s) ==
    IF s = <<>> THEN <<>>
    ELSE (IF Head(s) = LF THEN <<CR, LF>> ELSE <<Head(s)>>) \o LfToCrLf(Tail(s))

\* open(path, 'r').read(): the text a text-mode read of data returns
TextRead(data) ==
    CASE platform = "posix_py2"   -> data
      [] platform = "posix_py3"   -> UniversalNewlines(data)
      [] platform = "windows_py2" -> CrLfToLf(data)
      [] platform = "windows_py3" -> UniversalNewlines(data)

\* open(path, 'a').write(text): the bytes a text-mode write of text stores
TextWrite(text) ==
    CASE platform = "posix_py2"   -> text
      [] platform = "posix_py3"   -> text
      [] platform = "windows_py2" -> LfToCrLf(text)
      [] platform = "windows_py3" -> LfToCrLf(text)

\* 'file_identifier "%s";' % identifier
FileIdentifierLine(identifier) ==
    <<"f","i","l","e","_","i","d","e","n","t","i","f","i","e","r"," ",QUOTE>>
        \o identifier \o <<QUOTE, ";">>

Handle(p, m) == [path |-> p, mode |-> m]

\* An uncaught exception (or argparse's error) ends the process.
Exit(code) ==
    /\ pc' = "done"
    /\ exitCode' = code

InitAppender ==
    /\ prog = "appender"
    /\ pc = "parse"
    /\ platform \in AppenderPlatforms
    /\ exitCode = NoExit
    /\ given \in SUBSET Flags
    /\ \E i, x, o \in Paths, id \in Identifiers :
          args = [infile     |-> IF "infile" \in given THEN i ELSE "p1",
                  appendfile |-> IF "appendfile" \in given THEN x ELSE "p1",
                  outfile    |-> IF "outfile" \in given THEN o ELSE "p1",
                  identifier |-> IF "identifier" \in given THEN id ELSE <<>>]
    /\ fs \in [Paths -> {Missing} \cup {File(d) : d \in Contents}]
    /\ unwritable \in {{}, {"p3"}}
    /\ handles = {}
    /\ txt = <<>>
    /\ log = <<>>
    /\ run = 1
    /\ fsAtStart = fs
    /\ outAfterRun = <<>>
    /\ patterns = <<>> /\ idx = 0 /\ files = <<>> /\ stdout = <<>>
    /\ cwd = <<>> /\ sub = <<>>

\* ParseArgs with --identifier declared without required=True
ParseArgsIdentifierOptional ==
    /\ prog = "appender" /\ pc = "parse"
    /\ IF Flags \ {"identifier"} \subseteq given
       THEN /\ pc' = "copy_samefile"
            /\ UNCHANGED exitCode
       ELSE Exit(2)
    /\ UNCHANGED <<prog, platform, appVars, colVars>>

\* ParseArgs of a main() that reads the append file before it copies
ParseArgsThenRead ==
    /\ prog = "appender" /\ pc = "parse"
    /\ IF given = Flags
       THEN /\ pc' = "read_open"
            /\ UNCHANGED exitCode
       ELSE Exit(2)
    /\ UNCHANGED <<prog, platform, appVars, colVars>>

\* args = parser.parse_args(): every flag is required=True
ParseArgs ==
    /\ prog = "appender" /\ pc = "parse"
    /\ IF given = Flags
       THEN /\ pc' = "copy_samefile"
            /\ UNCHANGED exitCode
       ELSE Exit(2)
    /\ UNCHANGED <<prog, platform, appVars, colVars>>

\* copyfile: if _samefile(src, dst): raise Error
CopySameFile ==
    /\ prog = "appender" /\ pc = "copy_samefile"
    /\ IF args.infile = args.outfile /\ fs[args.infile].exists
       THEN Exit(1)
       ELSE /\ pc' = "copy_open_src"
            /\ UNCHANGED exitCode
    /\ UNCHANGED <<prog, platform, appVars, colVars>>

\* copyfile: with open(src, 'rb') as fsrc
CopyOpenSrc ==
    /\ prog = "appender" /\ pc = "copy_open_src"
    /\ IF fs[args.infile].exists
       THEN /\ handles' = handles \cup {Handle(args.infile, "rb")}
            /\ log' = Append(log, "open_src")
            /\ pc' = "copy_open_dst"
            /\ UNCHANGED exitCode
       ELSE /\ Exit(1)
            /\ UNCHANGED <<handles, log>>
    /\ UNCHANGED <<prog, platform, given, args, fs, unwritable, txt, run,
                   fsAtStart, outAfterRun, colVars>>

\* CopyOpenDst opening dst without truncating it ('ab' for 'wb')
CopyOpenDstNoTruncate ==
    /\ prog = "appender" /\ pc = "copy_open_dst"
    /\ IF args.outfile \in unwritable
       THEN /\ Exit(1)
            /\ handles' = handles \ {Handle(args.infile, "rb")}
            /\ log' = Append(log, "close_src")
            /\ UNCHANGED fs
       ELSE /\ fs' = [fs EXCEPT ![args.outfile] =
                         IF @.exists THEN @ ELSE File(<<>>)]
            /\ handles' = handles \cup {Handle(args.outfile, "wb")}
            /\ log' = Append(log, "open_dst")
            /\ pc' = "copy_data"
            /\ UNCHANGED exitCode
    /\ UNCHANGED <<prog, platform, given, args, unwritable, txt, run,
                   fsAtStart, outAfterRun, colVars>>

\* CopyOpenDst with src opened outside a with block: not closed on failure
CopyOpenDstLeakSrc ==
    /\ prog = "appender" /\ pc = "copy_open_dst"
    /\ IF args.outfile \in unwritable
       THEN /\ Exit(1)
            /\ UNCHANGED <<handles, log, fs>>
       ELSE /\ fs' = [fs EXCEPT ![args.outfile] = File(<<>>)]
            /\ handles' = handles \cup {Handle(args.outfile, "wb")}
            /\ log' = Append(log, "open_dst")
            /\ pc' = "copy_data"
            /\ UNCHANGED exitCode
    /\ UNCHANGED <<prog, platform, given, args, unwritable, txt, run,
                   fsAtStart, outAfterRun, colVars>>

\* copyfile: with open(dst, 'wb') as fdst  (creates or truncates dst)
CopyOpenDst ==
    /\ prog = "appender" /\ pc = "copy_open_dst"
    /\ IF args.outfile \in unwritable
       THEN /\ Exit(1)
            /\ handles' = handles \ {Handle(args.infile, "rb")}
            /\ log' = Append(log, "close_src")
            /\ UNCHANGED fs
       ELSE /\ fs' = [fs EXCEPT ![args.outfile] = File(<<>>)]
            /\ handles' = handles \cup {Handle(args.outfile, "wb")}
            /\ log' = Append(log, "open_dst")
            /\ pc' = "copy_data"
            /\ UNCHANGED exitCode
    /\ UNCHANGED <<prog, platform, given, args, unwritable, txt, run,
                   fsAtStart, outAfterRun, colVars>>

\* CopyData of a move: the source is removed once copied
CopyDataMove ==
    /\ prog = "appender" /\ pc = "copy_data"
    /\ fs' = [fs EXCEPT ![args.outfile] =
                 File(@.data \o fs[args.infile].data),
                        ![args.infile] = Missing]
    /\ log' = Append(log, "copy")
    /\ pc' = "copy_close"
    /\ UNCHANGED <<prog, platform, exitCode, given, args, unwritable, handles,
                   txt, run, fsAtStart, outAfterRun, colVars>>

\* copyfile: copyfileobj(fsrc, fdst)
CopyData ==
    /\ prog = "appender" /\ pc = "copy_data"
    /\ fs' = [fs EXCEPT ![args.outfile] =
                 File(@.data \o fs[args.infile].data)]
    /\ log' = Append(log, "copy")
    /\ pc' = "copy_close"
    /\ UNCHANGED <<prog, platform, exitCode, given, args, unwritable, handles,
                   txt, run, fsAtStart, outAfterRun, colVars>>

\* copyfile: the two with blocks end
CopyClose ==
    /\ prog = "appender" /\ pc = "copy_close"
    /\ handles' = handles \ {Handle(args.infile, "rb"),
                             Handle(args.outfile, "wb")}
    /\ log' = Append(log, "close_copy")
    /\ pc' = "read_open"
    /\ UNCHANGED <<prog, platform, exitCode, given, args, fs, unwritable,
                   txt, run, fsAtStart, outAfterRun, colVars>>

\* with open(args.appendfile, 'r') as f
ReadOpen ==
    /\ prog = "appender" /\ pc = "read_open"
    /\ IF fs[args.appendfile].exists
       THEN /\ handles' = handles \cup {Handle(args.appendfile, "r")}
            /\ log' = Append(log, "open_append")
            /\ pc' = "read"
            /\ UNCHANGED exitCode
       ELSE /\ Exit(1)
            /\ UNCHANGED <<handles, log>>
    /\ UNCHANGED <<prog, platform, given, args, fs, unwritable, txt, run,
                   fsAtStart, outAfterRun, colVars>>

\* txt = f.read(), and the with block ends
ReadAppendFile ==
    /\ prog = "appender" /\ pc = "read"
    /\ txt' = TextRead(fs[args.appendfile].data)
    /\ handles' = handles \ {Handle(args.appendfile, "r")}
    /\ log' = log \o <<"read", "close_append">>
    /\ pc' = "append_open"
    /\ UNCHANGED <<prog, platform, exitCode, given, args, fs, unwritable,
                   run, fsAtStart, outAfterRun, colVars>>

\* with open(args.outfile, 'a') as f
AppendOpen ==
    /\ prog = "appender" /\ pc = "append_open"
    /\ IF args.outfile \in unwritable
       THEN /\ Exit(1)
            /\ UNCHANGED <<handles, log, fs>>
       ELSE /\ fs' = [fs EXCEPT ![args.outfile] =
                         IF @.exists THEN @ ELSE File(<<>>)]
            /\ handles' = handles \cup {Handle(args.outfile, "a")}
            /\ log' = Append(log, "open_out")
            /\ pc' = "write_txt"
            /\ UNCHANGED exitCode
    /\ UNCHANGED <<prog, platform, given, args, unwritable, txt, run,
                   fsAtStart, outAfterRun, colVars>>

\* f.write(txt)
WriteTxt ==
    /\ prog = "appender" /\ pc = "write_txt"
    /\ fs' = [fs EXCEPT ![args.outfile] = File(@.data \o TextWrite(txt))]
    /\ log' = Append(log, "write_txt")
    /\ pc' = "write_ident"
    /\ UNCHANGED <<prog, platform, exitCode, given, args, unwritable, handles,
                   txt, run, fsAtStart, outAfterRun, colVars>>

\* f.write('file_identifier "%s";' % args.identifier)
WriteIdentifier ==
    /\ prog = "appender" /\ pc = "write_ident"
    /\ fs' = [fs EXCEPT ![args.outfile] =
                 File(@.data \o TextWrite(FileIdentifierLine(args.identifier)))]
    /\ log' = Append(log, "write_ident")
    /\ pc' = "append_close"
    /\ UNCHANGED <<prog, platform, exitCode, given, args, unwritable, handles,
                   txt, run, fsAtStart, outAfterRun, colVars>>

\* the with block ends and main() returns
AppendClose ==
    /\ prog = "appender" /\ pc = "append_close"
    /\ handles' = handles \ {Handle(args.outfile, "a")}
    /\ log' = Append(log, "close_out")
    /\ Exit(0)
    /\ UNCHANGED <<prog, platform, given, args, fs, unwritable, txt, run,
                   fsAtStart, outAfterRun, colVars>>

\* The build runs the script again with the same command line.
RunAgain ==
    /\ prog = "appender" /\ pc = "done"
    /\ run < MaxRuns
    /\ run' = run + 1
    /\ pc' = "parse"
    /\ exitCode' = NoExit
    /\ txt' = <<>>
    /\ log' = <<>>
    /\ fsAtStart' = fs
    /\ outAfterRun' = Append(outAfterRun, fs[args.outfile])
    /\ UNCHANGED <<prog, platform, given, args, fs, unwritable, handles,
                   colVars>>

AppenderNext ==
    \/ ParseArgs
    \/ CopySameFile
    \/ CopyOpenSrc
    \/ CopyOpenDst
    \/ CopyData
    \/ CopyClose
    \/ ReadOpen
    \/ ReadAppendFile
    \/ AppendOpen
    \/ WriteTxt
    \/ WriteIdentifier
    \/ AppendClose
    \/ RunAgain

----------------------------------------------------------------------------
(* The Path Collector: dev/glob_files.py                                   *)
(*                                                                         *)
(* The file system glob.glob() reads is the current directory and, when    *)
(* the current directory lists DirName, that one subdirectory, which is    *)
(* empty or holds the one file "a"; every other entry is a plain file.     *)
(* Absolute paths and ".." name nothing in it.                             *)
(* Patterns are drawn from an alphabet without "[".                        *)

CollectorPlatforms == {"posix_py2", "windows_py2"}

Windows == platform \in {"windows_py2", "windows_py3"}

\* os.sep and os.altsep: the characters that separate path components
Seps == IF Windows THEN {SLASH, BACKSLASH} ELSE {SLASH}
OsSep == IF Windows THEN BACKSLASH ELSE SLASH

DirName == <<"d">>
DOT == <<".">>

\* The names a plain file may have: a newline or a backslash is an ordinary
\* character of a POSIX file name, and cannot occur in a Windows one.
FileNames ==
    IF Windows
    THEN { <<"a">>, <<".", "a">> }
    ELSE { <<"a">>, <<".", "a">>, <<"a", BACKSLASH, "b">>, <<"a", LF, "b">> }

\* The patterns the command line may hold.
PatternSpecimens ==
    { <<"*">>, <<".", "*">>, <<"d", SLASH, "*">>, <<"*", SLASH, "a">>,
      <<"d", BACKSLASH, "a">> }

\* The sequences over S without repetition, of length at most n.
Listings(S, n) ==
    UNION { { q \in [1..k -> S] : \A i, j \in 1..k : i # j => q[i] # q[j] }
            : k \in 0..n }

Range(q) == { q[i] : i \in 1..Len(q) }

\* glob.has_magic: magic_check = re.compile('[*?[]')
HasMagic(s) == \E i \in 1..Len(s) : s[i] \in {"*", "?", "["}

RECURSIVE FnMatch(_, _)
\* fnmatch: "*" matches any text, "?" any one character, the rest literally
FnMatch(name, pat) ==
    IF pat = <<>> THEN name = <<>>
    ELSE IF Head(pat) = "*"
         THEN \/ FnMatch(name, Tail(pat))
              \/ (name # <<>> /\ FnMatch(Tail(name), pat))
    ELSE IF Head(pat) = "?"
         THEN name # <<>> /\ FnMatch(Tail(name), Tail(pat))
    ELSE name # <<>> /\ Head(name) = Head(pat)
             /\ FnMatch(Tail(name), Tail(pat))

RECURSIVE RStripSeps(_)
RStripSeps(h) ==
    IF h # <<>> /\ h[Len(h)] \in Seps
    THEN RStripSeps(SubSeq(h, 1, Len(h) - 1))
    ELSE h

\* os.path.split: <<head, tail>>, cut after the last separator
Split(p) ==
    LET cut  == { i \in 1..Len(p) : p[i] \in Seps }
        i    == IF cut = {} THEN 0 ELSE CHOOSE m \in cut : \A k \in cut : k <= m
        head == SubSeq(p, 1, i)
        tail == SubSeq(p, i + 1, Len(p))
        h2   == RStripSeps(head)
    IN  << IF h2 # <<>> THEN h2 ELSE head, tail >>

\* os.path.join(a, b) for a relative b
Join(a, b) ==
    IF a = <<>> THEN b
    ELSE IF a[Len(a)] \in Seps THEN a \o b
    ELSE a \o <<OsSep>> \o b

RECURSIVE Components(_)
\* the components of a path, the empty ones dropped
Components(p) ==
    IF p = <<>> THEN <<>>
    ELSE LET h == Split(p)[1]
             t == Split(p)[2]
         IN  IF Len(h) + Len(t) = Len(p) /\ t = <<>> THEN <<>>   \* only separators
             ELSE (IF h = p THEN <<>> ELSE Components(h))
                      \o (IF t = <<>> THEN <<>> ELSE <<t>>)

\* What a path names: "dir", "file" or "none".
Kind(p) ==
    IF p = <<>> \/ p[1] \in Seps THEN "none"
    ELSE LET raw == Components(p)
             cs  == SelectSeq(raw, LAMBDA c : c # DOT)
             asFile == p[Len(p)] \notin Seps /\ raw[Len(raw)] # DOT
         IN  IF \E i \in 1..Len(cs) : cs[i] = <<".", ".">> THEN "none"
             ELSE IF cs = <<>> THEN "dir"
             ELSE IF Len(cs) = 1
                  THEN IF cs[1] \notin Range(cwd) THEN "none"
                       ELSE IF cs[1] = DirName THEN "dir"
                       ELSE IF asFile THEN "file" ELSE "none"
             ELSE IF Len(cs) = 2
                  THEN IF /\ cs[1] = DirName /\ DirName \in Range(cwd)
                          /\ cs[2] \in Range(sub) /\ asFile
                       THEN "file" ELSE "none"
             ELSE "none"

\* os.path.lexists, os.path.isdir
LExists(p) == Kind(p) # "none"
IsDir(p) == Kind(p) = "dir"

\* os.listdir(dirname), <<>> when it raises os.error
ListDir(dirname) ==
    IF ~IsDir(dirname) THEN <<>>
    ELSE IF SelectSeq(Components(dirname), LAMBDA c : c # DOT) = <<>> THEN cwd
    ELSE sub

\* glob.glob1: the entries of dirname that match pattern; a leading dot is
\* matched only by a pattern that starts with a dot
Glob1(dirname, pattern) ==
    LET names   == ListDir(IF dirname = <<>> THEN DOT ELSE dirname)
        visible == IF pattern[1] # "."
                   THEN SelectSeq(names, LAMBDA x : x[1] # ".")
                   ELSE names
    IN  SelectSeq(visible, LAMBDA x : FnMatch(x, pattern))

\* glob.glob0: a basename without magic
Glob0(dirname, basename) ==
    IF basename = <<>>
    THEN IF IsDir(dirname) THEN <<basename>> ELSE <<>>
    ELSE IF LExists(Join(dirname, basename)) THEN <<basename>> ELSE <<>>

\* [os.path.join(dirname, name) for name in names]
JoinAll(dirname, names) == [i \in 1..Len(names) |-> Join(dirname, names[i])]

RECURSIVE Glob(_)
\* glob.glob(pathname) == list(glob.iglob(pathname))
Glob(pathname) ==
    IF ~HasMagic(pathname)
    THEN IF LExists(pathname) THEN <<pathname>> ELSE <<>>
    ELSE LET dirname  == Split(pathname)[1]
             basename == Split(pathname)[2]
         IN  IF dirname = <<>>
             THEN Glob1(<<>>, basename)
             ELSE LET dirs == IF dirname # pathname /\ HasMagic(dirname)
                              THEN Glob(dirname)
                              ELSE <<dirname>>
                      InDir(dn) == IF HasMagic(basename)
                                   THEN Glob1(dn, basename)
                                   ELSE Glob0(dn, basename)
                  IN  Concat([i \in 1..Len(dirs) |->
                                 JoinAll(dirs[i], InDir(dirs[i]))])

RECURSIVE JoinLines(_)
\* '\n'.join(paths)
JoinLines(paths) ==
    IF paths = <<>> THEN <<>>
    ELSE IF Len(paths) = 1 THEN paths[1]
    ELSE paths[1] \o <<LF>> \o JoinLines(Tail(paths))

\* text.replace('\\', '/', 1): only the first backslash
ReplaceFirstBackslash(s) ==
    [i \in 1..Len(s) |->
        IF s[i] = BACKSLASH /\ \A j \in 1..(i - 1) : s[j] # BACKSLASH
        THEN SLASH ELSE s[i]]

\* text.replace('\\', '/')
ReplaceBackslash(s) ==
    [i \in 1..Len(s) |-> IF s[i] = BACKSLASH THEN SLASH ELSE s[i]]

InitCollector ==
    /\ prog = "collector"
    /\ pc = "loop"
    /\ platform \in CollectorPlatforms
    /\ exitCode = NoExit
    /\ patterns \in UNION { [1..n -> PatternSpecimens] : n \in 0..MaxPatterns }
    /\ idx = 0
    /\ files = <<>>
    /\ stdout = <<>>
    /\ cwd \in Listings(FileNames \cup {DirName}, MaxEntries)
    /\ sub \in IF DirName \in Range(cwd)
               THEN { <<>>, << <<"a">> >> }
               ELSE {<<>>}
    /\ given = {} /\ args = <<>> /\ fs = <<>> /\ unwritable = {}
    /\ handles = {} /\ txt = <<>> /\ log = <<>> /\ run = 1
    /\ fsAtStart = <<>> /\ outAfterRun = <<>>

\* ExtendFiles that skips the paths already gathered
ExtendFilesUnique ==
    /\ prog = "collector" /\ pc = "loop"
    /\ idx < Len(patterns)
    /\ files' = files \o SelectSeq(Glob(patterns[idx + 1]),
                                   LAMBDA f : f \notin Range(files))
    /\ idx' = idx + 1
    /\ UNCHANGED <<prog, pc, platform, exitCode, patterns, stdout, cwd, sub,
                   appVars>>

\* ExtendFiles that records an empty entry for a pattern without a match
ExtendFilesOrEmpty ==
    /\ prog = "collector" /\ pc = "loop"
    /\ idx < Len(patterns)
    /\ files' = files \o (IF Glob(patterns[idx + 1]) = <<>>
                          THEN << <<>> >>
                          ELSE Glob(patterns[idx + 1]))
    /\ idx' = idx + 1
    /\ UNCHANGED <<prog, pc, platform, exitCode, patterns, stdout, cwd, sub,
                   appVars>>

\* for pattern in argv[1:]: files.extend(glob.glob(pattern))
ExtendFiles ==
    /\ prog = "collector" /\ pc = "loop"
    /\ idx < Len(patterns)
    /\ files' = files \o Glob(patterns[idx + 1])
    /\ idx' = idx + 1
    /\ UNCHANGED <<prog, pc, platform, exitCode, patterns, stdout, cwd, sub,
                   appVars>>

\* print '\n'.join(files).replace('\\', '/')
PrintFiles ==
    /\ prog = "collector" /\ pc = "loop"
    /\ idx = Len(patterns)
    /\ stdout' = stdout \o ReplaceBackslash(JoinLines(files)) \o <<LF>>
    /\ pc' = "return"
    /\ UNCHANGED <<prog, platform, exitCode, patterns, idx, files, cwd, sub,
                   appVars>>

\* return 0, and sys.exit(main(sys.argv))
ReturnZero ==
    /\ prog = "collector" /\ pc = "return"
    /\ Exit(0)
    /\ UNCHANGED <<prog, platform, patterns, idx, files, stdout, cwd, sub,
                   appVars>>

CollectorNext ==
    \/ ExtendFiles
    \/ PrintFiles
    \/ ReturnZero

----------------------------------------------------------------------------

Init == InitAppender \/ InitCollector

Next == AppenderNext \/ CollectorNext

Spec == Init /\ [][Next]_vars

----------------------------------------------------------------------------
(* What the claims speak of *)

Appender == prog = "appender"
Collector == prog = "collector"

\* The run of the Schema Appender has ended.
Done == pc = "done"

InPath == args.infile
AppendPath == args.appendfile
OutPath == args.outfile

\* The Path Collector has printed.
Printed == Collector /\ pc \in {"return", "done"}

\* The string handed to print (print adds one newline after it).
PrintedText == SubSeq(stdout, 1, Len(stdout) - 1)

\* Every match of every pattern, pattern by pattern.
AllMatches == Concat([i \in 1..Len(patterns) |-> Glob(patterns[i])])

RECURSIVE SplitAtLF(_)
\* text.split('\n')
SplitAtLF(s) ==
    IF \A i \in 1..Len(s) : s[i] # LF THEN <<s>>
    ELSE LET i == CHOOSE k \in 1..Len(s) :
                     s[k] = LF /\ \A j \in 1..(k - 1) : s[j] # LF
         IN  <<SubSeq(s, 1, i - 1)>> \o SplitAtLF(SubSeq(s, i + 1, Len(s)))

\* The path lines of an output: none for the empty string.
PathLines(s) == IF s = <<>> THEN <<>> ELSE SplitAtLF(s)

\* A path with its backslashes turned into slashes, character by character.
Normalized(path) ==
    [i \in 1..Len(path) |-> IF path[i] = BACKSLASH THEN SLASH ELSE path[i]]

RECURSIVE Count(_, _)
\* How many times ch occurs in s.
Count(s, ch) ==
    IF s = <<>> THEN 0
    ELSE (IF Head(s) = ch THEN 1 ELSE 0) + Count(Tail(s), ch)

HasLF(path) == \E i \in 1..Len(path) : path[i] = LF

\* The operations of a run that gets through, in the order of main().
FullRun ==
    <<"open_src", "open_dst", "copy", "close_copy", "open_append", "read",
      "close_append", "open_out", "write_txt", "write_ident", "close_out">>

IsPrefix(a, b) == Len(a) <= Len(b) /\ a = SubSeq(b, 1, Len(a))
IsSuffix(a, b) ==
    Len(a) <= Len(b) /\ a = SubSeq(b, Len(b) - Len(a) + 1, Len(b))

\* The step of main() a handle belongs to, by the mode it was opened in.
StepOf(h) ==
    CASE h.mode \in {"rb", "wb"} -> "copy"
      [] h.mode = "r"            -> "read"
      [] h.mode = "a"            -> "append"

----------------------------------------------------------------------------
(* C1 *)

\* C1 (as claimed): whenever a run of the Schema Appender succeeds with an
\* identifier free of double quotes, the output file holds the input file's
\* content as the run found it, then the append file's content as the run
\* found it, then file_identifier "<identifier>"; and nothing else -- for
\* every choice of the three paths.  Stated for a host whose text mode does
\* not translate line ends, where the claim is at its most favourable.
C1_OutputIsInputAppendIdentifier ==
    (Appender /\ Done /\ exitCode = 0 /\ platform = "posix_py2"
        /\ fsAtStart[AppendPath].exists
        /\ QUOTE \notin Range(args.identifier))
    => fs[OutPath] = File(fsAtStart[InPath].data \o fsAtStart[AppendPath].data
                            \o FileIdentifierLine(args.identifier))

----------------------------------------------------------------------------
(* C2 *)

\* C2: when a required flag is missing from the command line, the run ends
\* with the usage status 2 and has done no file operation at any point: no
\* handle was opened, no operation logged, and every file (the output file
\* included) is as it was.
C2_MissingFlagIsUsageErrorBeforeIO ==
    (Appender /\ given # Flags)
    => /\ pc \in {"parse", "done"}
       /\ log = <<>>
       /\ handles = {}
       /\ fs = fsAtStart
       /\ (Done => exitCode = 2)

\* A run without --infile has ended, and the output path it was given is
\* still absent.
C2_Witness ==
    /\ Appender /\ Done /\ exitCode = 2
    /\ given = Flags \ {"infile"}
    /\ ~fs[OutPath].exists

----------------------------------------------------------------------------
(* C3 *)

\* C3 (as claimed): a run that found the input file but no append file ends
\* in failure and leaves the output file holding exactly the input file's
\* content; a run that found no input file ends in failure.  Stated for an
\* output path that can be written, where the copy step cannot fail.
C3_MissingAppendLeavesCopy ==
    (Appender /\ Done /\ given = Flags /\ OutPath \notin unwritable)
    => /\ (fsAtStart[InPath].exists /\ ~fsAtStart[AppendPath].exists)
            => (exitCode # 0 /\ fs[OutPath] = File(fsAtStart[InPath].data))
       /\ ~fsAtStart[InPath].exists => exitCode # 0

----------------------------------------------------------------------------
(* C4 *)

\* C4: after a second (or later) run with the same command line the output
\* file is exactly what the run before left; and once the copy step is over
\* the output file holds the input file's content and nothing of what it
\* held before.
C4_SecondRunLeavesOutputIdentical ==
    Appender
    => /\ (Done /\ run >= 2) => fs[OutPath] = outAfterRun[run - 1]
       /\ pc \in {"copy_close", "read_open"}
            => fs[OutPath] = File(fsAtStart[InPath].data)

\* A second run has succeeded over the output file the first run wrote.
C4_Witness ==
    /\ Appender /\ Done /\ run = 2 /\ exitCode = 0
    /\ outAfterRun[1].exists /\ outAfterRun[1].data # <<>>
    /\ fs[OutPath] = outAfterRun[1]

----------------------------------------------------------------------------
(* C8 *)

----------------------------------------------------------------------------
(* C9 *)

\* C9: a run does its file operations in the one order copy, read, append:
\* nothing happens before the arguments are parsed, the operations done so
\* far are always a beginning of the full sequence (or the copy that could
\* not open its destination), the append file is read when the output path
\* already holds the copy of the input file, and a run that succeeds wrote
\* the identifier line last.
C9_StepsInFixedOrder ==
    Appender
    => /\ pc = "parse" => log = <<>>
       /\ IsPrefix(log, FullRun) \/ log = <<"open_src", "close_src">>
       /\ pc = "read" => fs[OutPath] = File(fsAtStart[InPath].data)
       /\ (Done /\ exitCode = 0)
            => /\ log = FullRun
               /\ IsSuffix(FileIdentifierLine(args.identifier),
                           fs[OutPath].data)

\* The append file is about to be read, and the copy has already replaced
\* what the output path held.
C9_Witness ==
    /\ Appender /\ pc = "read"
    /\ fsAtStart[OutPath].exists
    /\ fs[OutPath] # fsAtStart[OutPath]

----------------------------------------------------------------------------
(* C10 *)

\* C10: no step of the Schema Appender changes a file other than the output
\* file, so with three distinct paths the input and the append file are at
\* every moment what the run found; and no step of the Path Collector changes
\* the file system at all.
C10_OnlyOutputFileChanges ==
    /\ [](Appender /\ Cardinality({InPath, AppendPath, OutPath}) = 3
            => /\ fs[InPath] = fsAtStart[InPath]
               /\ fs[AppendPath] = fsAtStart[AppendPath])
    /\ [][/\ Appender => \A p \in Paths \ {OutPath} : fs'[p] = fs[p]
          /\ Collector => UNCHANGED <<cwd, sub, fs>>]_vars

\* A run over three distinct paths has succeeded and changed the output
\* file.
C10_Witness ==
    /\ Appender /\ Done /\ exitCode = 0
    /\ Cardinality({InPath, AppendPath, OutPath}) = 3
    /\ fs[OutPath] # fsAtStart[OutPath]
    /\ fs[InPath] = fsAtStart[InPath]

----------------------------------------------------------------------------
(* C5 *)

\* C5 (as claimed): the lines of the output are the matches of pattern 1,
\* then those of pattern 2, and so on, duplicates kept, so that the number
\* of path lines is the sum of the patterns' match counts.
C5_LinesAreMatchesInPatternOrder ==
    Printed
    => LET matches == AllMatches
           lines   == PathLines(PrintedText)
       IN  /\ Len(lines) = Len(matches)
           /\ lines = [i \in 1..Len(matches) |-> Normalized(matches[i])]

\* C5 (amended): the gathered list is the matches of pattern 1, then those of
\* pattern 2, and so on, duplicates kept; and when no matched path contains
\* a newline character, the lines of the output are those paths in that
\* order, one line each.
C5_LinesAreMatchesUnlessNewlineInPath ==
    Printed
    => LET matches == AllMatches
           lines   == PathLines(PrintedText)
       IN  /\ files = matches
           /\ (\A i \in 1..Len(matches) : ~HasLF(matches[i]))
                => /\ Len(lines) = Len(matches)
                   /\ lines = [i \in 1..Len(matches) |->
                                  Normalized(matches[i])]

\* Two patterns matched the same path, and the output lists it twice.
C5_Witness ==
    /\ Printed
    /\ \A i \in 1..Len(files) : ~HasLF(files[i])
    /\ Len(PathLines(PrintedText)) >= 3
    /\ \E i, j \in 1..Len(files) : i < j /\ files[i] = files[j]
    /\ \E i \in 1..Len(patterns) : Len(Glob(patterns[i])) = 2

----------------------------------------------------------------------------
(* C6 *)

\* C6: what is printed holds no backslash; it is the joined paths with each
\* backslash turned into a slash and every other character left as it was,
\* which is the same as joining the paths normalised one by one.
C6_NoBackslashInOutput ==
    Printed
    => LET joined  == JoinLines(files)
           printed == PrintedText
       IN  /\ \A i \in 1..Len(stdout) : stdout[i] # BACKSLASH
           /\ Len(printed) = Len(joined)
           /\ \A i \in 1..Len(printed) :
                 printed[i] = IF joined[i] = BACKSLASH THEN SLASH ELSE joined[i]
           /\ printed = JoinLines([i \in 1..Len(files) |->
                                     Normalized(files[i])])

\* Paths with a backslash each were matched more than once and printed.
C6_Witness ==
    /\ Printed
    /\ Count(JoinLines(files), BACKSLASH) >= 2
    /\ Count(PrintedText, SLASH) >= 2

----------------------------------------------------------------------------
(* C7 *)

\* C7: the Path Collector always ends with status 0; when no pattern matches
\* (or there is no pattern) the joined string is empty; and a pattern
\* without a match leaves no trace in the output, which is what the matching
\* patterns alone would have produced.
C7_NoMatchContributesNothing ==
    /\ (Collector /\ Done) => exitCode = 0
    /\ Printed
         => /\ (\A i \in 1..Len(patterns) : Glob(patterns[i]) = <<>>)
                 => stdout = <<LF>>
            /\ LET found    == [i \in 1..Len(patterns) |-> Glob(patterns[i])]
                   matching == SelectSeq(found, LAMBDA m : m # <<>>)
               IN  PrintedText = ReplaceBackslash(JoinLines(Concat(matching)))

\* A pattern without a match stood between two patterns with matches, and
\* the run ended with status 0.
C7_Witness ==
    /\ Collector /\ Done /\ exitCode = 0
    /\ Len(patterns) = 3
    /\ Glob(patterns[1]) # <<>>
    /\ Glob(patterns[2]) = <<>>
    /\ Glob(patterns[3]) # <<>>

====
